---- MODULE Spec2Model ----
(***************************************************************************)
(* Telecom assistant: the keyword classifier, the router, the five handler *)
(* nodes, the aggregator (orchestration/graph.py), the agents they call    *)
(* (agents/*.py, utils/database.py, config/config.py) and the Streamlit    *)
(* session around them (ui/streamlit_app.py).                              *)
(*                                                                         *)
(* Strings that the code inspects character by character (queries, e-mail  *)
(* addresses) are tuples of one-character strings.  Texts that the code    *)
(* only assembles (f-strings, messages) are tuples of fragments, so that   *)
(* concatenation is \o and "starts with" / "contains" are decidable.       *)
(***************************************************************************)
EXTENDS Integers, Sequences, FiniteSets, TLC

VARIABLES
  api_key,        \* os.getenv("OPENAI_API_KEY"): a key text, or None
  telecom_db,     \* the content of data/telecom.db
  has_faiss,      \* HAS_FAISS: whether the faiss import succeeded
  INDEX,          \* the global _INDEX of knowledge_agents: "None" or the index
  session_state,  \* st.session_state: the keys set so far and their values
  pc,             \* where the current request is: idle, a graph node, END, raised, blocked
  state,          \* the TelecomAssistantState threaded through the graph
  exc,            \* the exception graph.invoke is propagating, when pc = "raised"
  calls,          \* the log of the current request: the external calls issued and the
                  \* exceptions caught, in order
  trace,          \* the graph nodes that have run in the current request, in order
  returned,       \* what the last run_query_through_graph call returned, None before
  nreq            \* chat requests submitted so far in this run

vars == <<api_key, telecom_db, has_faiss, INDEX, session_state, pc, state, exc, calls, trace,
          returned, nreq>>

-----------------------------------------------------------------------------
(* Bounds *)

MaxFrags == 2      \* a composed query is made of at most this many fragments
MaxRequests == 2   \* chat requests per run
MaxEntries == 2    \* entries of a mapping handed to the aggregator on its own

-----------------------------------------------------------------------------
(* Python values *)

None == <<"None">>            \* str(None); no character string or text equals it

Truthy(x) == x # None /\ x # <<>>


Range(s) == {s[i] : i \in 1..Len(s)}

\* `w in q` for str: w occurs in q as a contiguous substring
Contains(q, w) ==
  \E i \in 0..(Len(q) - Len(w)) : SubSeq(q, i + 1, i + Len(w)) = w

UpperChars == <<"A","B","C","D","E","F","G","H","I","J","K","L","M",
                "N","O","P","Q","R","S","T","U","V","W","X","Y","Z">>
LowerChars == <<"a","b","c","d","e","f","g","h","i","j","k","l","m",
                "n","o","p","q","r","s","t","u","v","w","x","y","z">>

LowerChar(c) ==
  IF \E k \in 1..Len(UpperChars) : UpperChars[k] = c
  THEN LowerChars[CHOOSE k \in 1..Len(UpperChars) : UpperChars[k] = c]
  ELSE c

\* str.lower()
lower(s) == [i \in 1..Len(s) |-> LowerChar(s[i])]

\* str(e) and type(e).__name__ of a raised exception
Exception(type, msg) == [type |-> type, msg |-> msg]

\* f"{type(e).__name__}: {e}"
ErrText(e) == <<e.type, ": ">> \o e.msg

Ok(v) == [ok |-> TRUE, val |-> v]
Raise(e) == [ok |-> FALSE, exc |-> e]

-----------------------------------------------------------------------------
(* orchestration/graph.py: classification *)

BillingKeywords ==
  << <<"b","i","l","l">>,
     <<"c","h","a","r","g","e">>,
     <<"p","a","y","m","e","n","t">>,
     <<"a","c","c","o","u","n","t">>,
     <<"d","u","e"," ","d","a","t","e">>,
     <<"i","n","v","o","i","c","e">> >>

NetworkKeywords ==
  << <<"n","e","t","w","o","r","k">>,
     <<"s","i","g","n","a","l">>,
     <<"c","o","n","n","e","c","t","i","o","n">>,
     <<"c","a","l","l">>,
     <<"d","a","t","a">>,
     <<"s","l","o","w">>,
     <<"i","n","t","e","r","n","e","t">>,
     <<"5","g">>,
     <<"4","g">> >>

PlanKeywords ==
  << <<"p","l","a","n">>,
     <<"r","e","c","o","m","m","e","n","d">>,
     <<"u","p","g","r","a","d","e">>,
     <<"d","o","w","n","g","r","a","d","e">>,
     <<"b","e","s","t">>,
     <<"f","a","m","i","l","y">>,
     <<"p","a","c","k">> >>

KnowledgeKeywords ==
  << <<"h","o","w">>,
     <<"w","h","a","t">>,
     <<"c","o","n","f","i","g","u","r","e">>,
     <<"s","e","t","u","p">>,
     <<"a","p","n">>,
     <<"v","o","l","t","e">>,
     <<"r","o","a","m","i","n","g">>,
     <<"e","s","i","m">> >>

\* any(w in q for w in words)
AnyIn(q, words) == \E k \in 1..Len(words) : Contains(q, words[k])

\* classify_label with the network test ahead of the billing test
classify_label_network_first(query) ==
  LET q == lower(query) IN
  IF AnyIn(q, NetworkKeywords) THEN "network_troubleshooting"
  ELSE IF AnyIn(q, BillingKeywords) THEN "billing_account"
  ELSE IF AnyIn(q, PlanKeywords) THEN "service_recommendation"
  ELSE IF AnyIn(q, KnowledgeKeywords) THEN "knowledge_retrieval"
  ELSE "fallback"

\* classify_label without the .lower()
classify_label_case_sensitive(query) ==
  LET q == query IN
  IF AnyIn(q, BillingKeywords) THEN "billing_account"
  ELSE IF AnyIn(q, NetworkKeywords) THEN "network_troubleshooting"
  ELSE IF AnyIn(q, PlanKeywords) THEN "service_recommendation"
  ELSE IF AnyIn(q, KnowledgeKeywords) THEN "knowledge_retrieval"
  ELSE "fallback"

classify_label(query) ==
  LET q == lower(query) IN
  IF AnyIn(q, BillingKeywords) THEN "billing_account"
  ELSE IF AnyIn(q, NetworkKeywords) THEN "network_troubleshooting"
  ELSE IF AnyIn(q, PlanKeywords) THEN "service_recommendation"
  ELSE IF AnyIn(q, KnowledgeKeywords) THEN "knowledge_retrieval"
  ELSE "fallback"

\* {**state, "classification": cls}
\* classify_query storing the lower-cased query
classify_query_lowers_query(s) ==
  [s EXCEPT !.query = lower(s.query), !.classification = classify_label(s.query)]

classify_query(s) == [s EXCEPT !.classification = classify_label(s.query)]

\* route_query without the knowledge_retrieval branch
route_query_no_knowledge(s) ==
  LET cls == s.classification IN
  IF cls = "billing_account" THEN "crew_ai_node"
  ELSE IF cls = "network_troubleshooting" THEN "autogen_node"
  ELSE IF cls = "service_recommendation" THEN "langchain_node"
  ELSE "fallback_handler"

route_query(s) ==
  LET cls == s.classification IN
  IF cls = "billing_account" THEN "crew_ai_node"
  ELSE IF cls = "network_troubleshooting" THEN "autogen_node"
  ELSE IF cls = "service_recommendation" THEN "langchain_node"
  ELSE IF cls = "knowledge_retrieval" THEN "llamaindex_node"
  ELSE "fallback_handler"

-----------------------------------------------------------------------------
(* The external language-model service: a call returns text or raises *)

LLMTexts == { <<"llm-text-1">>, <<"llm-text-2">> }

LLMError == Exception("APIError", <<"model call failed">>)

LLMResults == {Ok(t) : t \in LLMTexts} \cup {Raise(LLMError)}

\* one entry of the log of a request: an external call (kind "llm", "load", "build" or "query") with
\* what it was given and what it did, ...
Call(kind, agent, input, result) ==
  [kind |-> kind, agent |-> agent, input |-> input, result |-> result]

\* ... or an exception that an except clause of `agent` turned into text
Caught(agent, e) == [kind |-> "caught", agent |-> agent, input |-> <<>>, result |-> Raise(e)]

\* what a function of the agents hands back: its result and the calls it issued
Done(res, cs) == [res |-> res, calls |-> cs]

-----------------------------------------------------------------------------
(* agents/network_agents.py *)

network_build_client(key) ==
  IF ~Truthy(key)
  THEN Raise(Exception("RuntimeError",
                       <<"Missing ", "OPENAI_API_KEY", " in your environment or .env">>))
  ELSE Ok("client")

\* r: what client.chat.completions.create does when it is reached; the call's
\* input is what the message template is filled with
diagnostics_agent(query, customer_id, key, r) ==
  LET client == network_build_client(key)
      message == [customer_id |-> customer_id, query |-> query]
  IN IF ~client.ok THEN Done(client, <<>>)
     ELSE Done(r, << Call("llm", "diagnostics", message, r) >>)

resolution_agent(diagnostics_summary, key, r) ==
  LET client == network_build_client(key)
      user_msg == [diagnostics_summary |-> diagnostics_summary]
  IN IF ~client.ok THEN Done(client, <<>>)
     ELSE Done(r, << Call("llm", "resolution", user_msg, r) >>)

NetworkFailed(e) == <<"Network troubleshooting failed: ">> \o ErrText(e)

\* process_network_query handing the query, not the diagnostics, to the resolution agent
process_network_query_from_query(query, customer_identifier, key, r1, r2) ==
  LET d == diagnostics_agent(query, customer_identifier, key, r1) IN
  IF ~d.res.ok
  THEN Done(Ok(NetworkFailed(d.res.exc)),
            d.calls \o << Caught("process_network_query", d.res.exc) >>)
  ELSE
    LET r == resolution_agent(query, key, r2) IN
    IF ~r.res.ok
    THEN Done(Ok(NetworkFailed(r.res.exc)),
              d.calls \o r.calls \o << Caught("process_network_query", r.res.exc) >>)
    ELSE Done(Ok(<<"### Network Diagnostics (Internal)\n">> \o d.res.val
                 \o <<"\n\n">> \o <<"### Final Explanation\n">> \o r.res.val),
              d.calls \o r.calls)

\* process_network_query calling the diagnostics agent again when it has failed
process_network_query_retrying(query, customer_identifier, key, r1, r2) ==
  LET d == diagnostics_agent(query, customer_identifier, key, r1) IN
  IF ~d.res.ok
  THEN Done(Ok(NetworkFailed(d.res.exc)),
            d.calls \o d.calls \o << Caught("process_network_query", d.res.exc) >>)
  ELSE
    LET r == resolution_agent(d.res.val, key, r2) IN
    IF ~r.res.ok
    THEN Done(Ok(NetworkFailed(r.res.exc)),
              d.calls \o r.calls \o << Caught("process_network_query", r.res.exc) >>)
    ELSE Done(Ok(<<"### Network Diagnostics (Internal)\n">> \o d.res.val
                 \o <<"\n\n">> \o <<"### Final Explanation\n">> \o r.res.val),
              d.calls \o r.calls)

process_network_query(query, customer_identifier, key, r1, r2) ==
  LET d == diagnostics_agent(query, customer_identifier, key, r1) IN
  IF ~d.res.ok
  THEN Done(Ok(NetworkFailed(d.res.exc)),
            d.calls \o << Caught("process_network_query", d.res.exc) >>)
  ELSE
    LET r == resolution_agent(d.res.val, key, r2) IN
    IF ~r.res.ok
    THEN Done(Ok(NetworkFailed(r.res.exc)),
              d.calls \o r.calls \o << Caught("process_network_query", r.res.exc) >>)
    ELSE Done(Ok(<<"### Network Diagnostics (Internal)\n">> \o d.res.val
                 \o <<"\n\n">> \o <<"### Final Explanation\n">> \o r.res.val),
              d.calls \o r.calls)

-----------------------------------------------------------------------------
(* agents/knowledge_agents.py *)

KeyNotSet == Exception("RuntimeError",
                       <<"OPENAI_API_KEY", " is not set. Please add it to your .env file.">>)

init_llama_settings(key) == IF ~Truthy(key) THEN Raise(KeyNotSet) ELSE Ok("settings")

\* _load_documents found no folder or no document
NoDocuments == Exception("RuntimeError", <<"No documents found in knowledge base folder">>)

\* what _build_index_faiss can do: the FAISS-backed index, no documents, or FAISS failing
FaissBuildResults ==
  { Ok("faiss_index"), Raise(NoDocuments),
    Raise(Exception("RuntimeError", <<"could not read the FAISS index file">>)) }

\* what _build_index_default can do: the in-memory index, or no documents
DefaultBuildResults == { Ok("default_index"), Raise(NoDocuments) }

\* one call of builder `who` that ended with b: its _load_documents, which raises when
\* b is NoDocuments, and the call itself
build_attempt(who, b) ==
  << Call("load", who, [dir |-> "DOCS_DIR"],
          IF ~b.ok /\ b.exc = NoDocuments THEN b ELSE Ok("documents")),
     Call("build", who, [dir |-> "DOCS_DIR"], b) >>

\* the body of `if _INDEX is None`. bf, bd: what _build_index_faiss and
\* _build_index_default do when they are reached
build_index(index, key, faiss, bf, bd) ==
  LET settings == init_llama_settings(key) IN
  IF ~settings.ok THEN [res |-> settings, index |-> index, calls |-> <<>>]
  ELSE IF faiss /\ bf.ok
    THEN [res |-> bf, index |-> bf.val, calls |-> build_attempt("faiss", bf)]
  ELSE
    LET cs == IF faiss
              THEN build_attempt("faiss", bf) \o << Caught("_get_index", bf.exc) >>
                   \o build_attempt("default", bd)
              ELSE build_attempt("default", bd)
    IN [res |-> bd, index |-> IF bd.ok THEN bd.val ELSE index, calls |-> cs]

\* _get_index without the test of _INDEX
get_index_always_builds(index, key, faiss, bf, bd) ==
  build_index(index, key, faiss, bf, bd)

\* Hands back the index (or the exception), the new value of _INDEX and the builds made.
get_index(index, key, faiss, bf, bd) ==
  IF index # "None" THEN [res |-> Ok(index), index |-> index, calls |-> <<>>]
  ELSE build_index(index, key, faiss, bf, bd)

QueryEngineResults ==
  { Ok("query_engine"),
    Raise(Exception("ValueError", <<"could not create the query engine">>)) }

\* qe: what index.as_query_engine does; r: what query_engine.query does
answer_knowledge_query(query, customer_email, index, key, faiss, bf, bd, qe, r) ==
  LET g == get_index(index, key, faiss, bf, bd) IN
  IF ~g.res.ok
  THEN [res |-> Ok(<<"Knowledge assistant is not configured correctly.\n\n">>
                   \o <<"Technical details: ">> \o ErrText(g.res.exc)),
        index |-> g.index,
        calls |-> g.calls \o << Caught("answer_knowledge_query", g.res.exc) >>]
  ELSE IF ~qe.ok THEN [res |-> qe, index |-> g.index, calls |-> g.calls]
  ELSE
    LET full_question ==
          [customer |-> IF Truthy(customer_email) THEN customer_email ELSE <<"unknown">>,
           question |-> query]
        cs == g.calls \o << Call("llm", "knowledge", full_question, r) >>
    IN IF r.ok THEN [res |-> r, index |-> g.index, calls |-> cs]
       ELSE [res |-> Ok(<<"Sorry, I ran into a problem while searching the knowledge base.\n\n">>
                        \o <<"Technical details: ">> \o ErrText(r.exc)),
             index |-> g.index,
             calls |-> cs \o << Caught("answer_knowledge_query", r.exc) >>]

-----------------------------------------------------------------------------
(* utils/database.py: the SQLite store and the queries the agents run on it *)

\* column values: TEXT, INTEGER/REAL and NULL, each with its str()
Text(t) == [type |-> "str", s |-> t]
Num(n) == [type |-> "num", s |-> <<ToString(n)>>, n |-> n]
Null == [type |-> "null", s |-> None]

\* bool(v) of a column value
ValTruthy(v) ==
  IF v.type = "str" THEN v.s # <<>>
  ELSE IF v.type = "num" THEN v.n # 0
  ELSE FALSE

\* repr(v): a str is quoted
Repr(v) == IF v.type = "str" THEN <<"'">> \o v.s \o <<"'">> ELSE v.s

\* corrupt: the pages of the table cannot be read
Table(cols, rows) == [cols |-> cols, rows |-> rows, corrupt |-> FALSE]

EmailA == <<"a","@","x">>     \* customer C1, on plan P1
EmailB == <<"b","@","y">>     \* customer C2, whose plan P9 is not in the catalog
EmailC == <<"c","@","z">>     \* not a customer

CustomersCols == <<"customer_id", "email", "name", "service_plan_id">>
CustomersRows ==
  << [customer_id |-> Text(<<"C1">>), email |-> Text(EmailA),
      name |-> Text(<<"Asha">>), service_plan_id |-> Text(<<"P1">>)],
     [customer_id |-> Text(<<"C2">>), email |-> Text(EmailB),
      name |-> Text(<<"Bala">>), service_plan_id |-> Text(<<"P9">>)] >>

PlansCols == <<"plan_id", "name", "monthly_cost", "unlimited_data", "data_limit_gb",
               "unlimited_voice", "voice_minutes", "unlimited_sms", "sms_count">>
PlansRows ==
  << [plan_id |-> Text(<<"P1">>), name |-> Text(<<"Basic">>), monthly_cost |-> Num(299),
      unlimited_data |-> Num(0), data_limit_gb |-> Num(10),
      unlimited_voice |-> Num(1), voice_minutes |-> Null,
      unlimited_sms |-> Num(0), sms_count |-> Num(100)],
     [plan_id |-> Text(<<"P2">>), name |-> Text(<<"Max">>), monthly_cost |-> Num(799),
      unlimited_data |-> Num(1), data_limit_gb |-> Null,
      unlimited_voice |-> Num(1), voice_minutes |-> Null,
      unlimited_sms |-> Num(1), sms_count |-> Null] >>

\* the ISO dates of the store, ascending: SQLite orders TEXT bytewise
Dates == << <<"2023-05-31">>, <<"2023-06-30">> >>

DateRank(v) == IF \E i \in 1..Len(Dates) : Dates[i] = v.s
               THEN CHOOSE i \in 1..Len(Dates) : Dates[i] = v.s
               ELSE 0

UsageCols == <<"customer_id", "billing_period_start", "billing_period_end", "data_used_gb",
               "voice_minutes_used", "sms_count_used", "total_bill_amount">>
UsageRows ==
  << [customer_id |-> Text(<<"C1">>), billing_period_start |-> Text(<<"2023-05-01">>),
      billing_period_end |-> Text(<<"2023-05-31">>), data_used_gb |-> Num(4),
      voice_minutes_used |-> Num(120), sms_count_used |-> Num(10),
      total_bill_amount |-> Num(299)],
     [customer_id |-> Text(<<"C1">>), billing_period_start |-> Text(<<"2023-06-01">>),
      billing_period_end |-> Text(<<"2023-06-30">>), data_used_gb |-> Num(12),
      voice_minutes_used |-> Num(300), sms_count_used |-> Num(25),
      total_bill_amount |-> Num(450)] >>

\* service_plans of a store whose schema lacks monthly_cost
PlansColsNoCost == SelectSeq(PlansCols, LAMBDA c : c # "monthly_cost")
PlansRowsNoCost ==
  [i \in 1..Len(PlansRows) |->
     [c \in Range(PlansColsNoCost) |-> PlansRows[i][c]]]

\* names: the table names in the order of ORDER BY name
Store(broken, names, tables) == [broken |-> broken, names |-> names, tables |-> tables]

DbFull ==
  Store(FALSE, <<"customer_usage", "customers", "service_plans">>,
        [n \in {"customer_usage", "customers", "service_plans"} |->
           IF n = "customers" THEN Table(CustomersCols, CustomersRows)
           ELSE IF n = "service_plans" THEN Table(PlansCols, PlansRows)
           ELSE Table(UsageCols, UsageRows)])

DbEmpty == Store(FALSE, <<>>, <<>>)

\* telecom.db is not an SQLite file: every statement raises
DbBroken == Store(TRUE, <<>>, <<>>)

DbPlansOnly ==
  Store(FALSE, <<"service_plans">>,
        [n \in {"service_plans"} |-> Table(PlansCols, PlansRows)])

DbNoPlans ==
  Store(FALSE, <<"customer_usage", "customers">>,
        [n \in {"customer_usage", "customers"} |->
           IF n = "customers" THEN Table(CustomersCols, CustomersRows)
           ELSE Table(UsageCols, UsageRows)])

DbNoCost ==
  Store(FALSE, <<"customers", "service_plans">>,
        [n \in {"customers", "service_plans"} |->
           IF n = "customers" THEN Table(CustomersCols, CustomersRows)
           ELSE Table(PlansColsNoCost, PlansRowsNoCost)])

\* sqlite_master lists customers, but every statement on the table raises
DbCorrupt ==
  Store(FALSE, <<"customers">>,
        [n \in {"customers"} |-> [Table(CustomersCols, <<>>) EXCEPT !.corrupt = TRUE]])

Stores == {DbFull, DbEmpty, DbBroken, DbPlansOnly, DbNoPlans, DbNoCost, DbCorrupt}

NotADatabase == Exception("DatabaseError", <<"file is not a database">>)
Malformed == Exception("DatabaseError", <<"database disk image is malformed">>)
NoSuchTable(t) == Exception("OperationalError", <<"no such table: ", t>>)
NoSuchColumn(c) == Exception("OperationalError", <<"no such column: ", c>>)
KeyError(k) == Exception("KeyError", <<"'", k, "'">>)

\* rows[:n]
Take(rows, n) == SubSeq(rows, 1, IF Len(rows) < n THEN Len(rows) ELSE n)

\* ORDER BY billing_period_end DESC: the rows by descending date
RECURSIVE OrderByEndDesc(_)
OrderByEndDesc(rows) ==
  IF rows = <<>> THEN <<>>
  ELSE
    LET i == CHOOSE i \in 1..Len(rows) :
               /\ \A j \in 1..Len(rows) :
                     DateRank(rows[j].billing_period_end) <= DateRank(rows[i].billing_period_end)
               /\ \A j \in 1..(i - 1) :
                     DateRank(rows[j].billing_period_end) < DateRank(rows[i].billing_period_end)
    IN <<rows[i]>> \o OrderByEndDesc(SubSeq(rows, 1, i - 1) \o SubSeq(rows, i + 1, Len(rows)))

\* run_query on "SELECT * FROM <table> [WHERE <wcol> = :val] [ORDER BY <ocol> DESC]
\* [LIMIT <limit>]"; wcol, ocol = "" and limit = 0 when the clause is absent
run_query(store, table, wcol, val, ocol, limit) ==
  IF store.broken THEN Raise(NotADatabase)
  ELSE IF table \notin Range(store.names) THEN Raise(NoSuchTable(table))
  ELSE
    LET t == store.tables[table] IN
    IF wcol # "" /\ wcol \notin Range(t.cols) THEN Raise(NoSuchColumn(wcol))
    ELSE IF t.corrupt THEN Raise(Malformed)
    ELSE IF ocol # "" /\ ocol \notin Range(t.cols) THEN Raise(NoSuchColumn(ocol))
    ELSE
      LET matching == IF wcol = "" THEN t.rows
                      ELSE SelectSeq(t.rows, LAMBDA r : r[wcol] = val)
          ordered == IF ocol = "" THEN matching ELSE OrderByEndDesc(matching)
      IN Ok(IF limit = 0 THEN ordered ELSE Take(ordered, limit))

\* get_tables: SELECT name FROM sqlite_master WHERE type='table' ORDER BY name
get_tables(store) ==
  IF store.broken THEN Raise(NotADatabase) ELSE Ok(store.names)

\* run_query leaves with its connection open: conn.close() is the statement after
\* execute and fetchall, and no finally or with closes the connection when they raise
leaves_open(result) == ~result.ok

\* the statement run_query is given
Sql(table, wcol, val, ocol, limit) ==
  [table |-> table, wcol |-> wcol, val |-> val, ocol |-> ocol, limit |-> limit]

\* a run_query call of `agent`, logged with its statement and what it did
logged_query(agent, store, table, wcol, val, ocol, limit) ==
  Call("query", agent, Sql(table, wcol, val, ocol, limit),
       run_query(store, table, wcol, val, ocol, limit))

\* a get_tables call of `agent`: one run_query on sqlite_master
logged_tables(agent, store) ==
  Call("query", agent, Sql("sqlite_master", "type", Text(<<"table">>), "name", 0),
       get_tables(store))

-----------------------------------------------------------------------------
(* agents/billing_agents.py *)

billing_build_llm(key) == IF ~Truthy(key) THEN Raise(KeyNotSet) ELSE Ok("llm")

\* sep.join(parts) for texts
RECURSIVE Join(_, _)
Join(parts, sep) ==
  IF parts = <<>> THEN <<>>
  ELSE IF Len(parts) = 1 THEN parts[1]
  ELSE parts[1] \o <<sep>> \o Join(Tail(parts), sep)

\* cols: list(rows[0].keys()), the columns of the table the rows come from
format_rows(cols, rows) ==
  IF rows = <<>> THEN <<"  (no rows)\n">>
  ELSE
    LET shown == Take(rows, 5)
        header == <<"  Columns: ">> \o Join([i \in 1..Len(cols) |-> <<cols[i]>>], ", ")
        line(r) == <<"  - ">>
                   \o Join([i \in 1..Len(cols) |-> <<cols[i], "=">> \o Repr(r[cols[i]])], ", ")
    IN Join(<<header>> \o [i \in 1..Len(shown) |-> line(shown[i])], "\n") \o <<"\n">>

candidate_columns == <<"customer_id", "customerid", "email", "phone", "msisdn", "account_id">>

\* the loop over candidate_columns[k..] for one table: the column whose query gave
\* rows first and those rows, or col = "" and no rows; queries: the queries issued
RECURSIVE filter_table(_, _, _, _)
filter_table(store, table, customer_identifier, k) ==
  IF k > Len(candidate_columns) THEN [col |-> "", rows |-> <<>>, queries |-> <<>>]
  ELSE
    LET col == candidate_columns[k]
        q == logged_query("billing", store, table, col, Text(customer_identifier), "", 5)
    IN IF q.result.ok /\ q.result.val # <<>>
       THEN [col |-> col, rows |-> q.result.val, queries |-> <<q>>]
       ELSE [filter_table(store, table, customer_identifier, k + 1) EXCEPT
               !.queries = <<q>> \o @]

\* the lines one table adds to the snapshot once the filter loop has ended with `found`
lines_of_table(store, table, customer_identifier, found) ==
  LET cols == store.tables[table].cols
      head == << <<"\nTable: ", table>> >>
  IN IF found.rows # <<>>
     THEN [lines |-> head \o << <<"  Rows for ", found.col, " = ">> \o <<"'">>
                                \o customer_identifier \o <<"'", ":">>,
                                format_rows(cols, found.rows) >>,
           queries |-> found.queries]
     ELSE
       LET sample == logged_query("billing", store, table, "", Null, "", 5) IN
       [lines |-> IF sample.result.ok
                  THEN head \o << <<"  Sample rows:">>, format_rows(cols, sample.result.val) >>
                  ELSE head \o << <<"  (Failed to query table ", table, ": ">>
                                  \o ErrText(sample.result.exc) \o <<")">> >>,
        queries |-> found.queries \o <<sample>>]

\* table_lines that never filters
table_lines_sample_only(store, table, customer_identifier) ==
  lines_of_table(store, table, customer_identifier,
                 [col |-> "", rows |-> <<>>, queries |-> <<>>])

\* table_lines without the test of the identifier
table_lines_always_filter(store, table, customer_identifier) ==
  lines_of_table(store, table, customer_identifier,
                 filter_table(store, table, customer_identifier, 1))

\* one iteration of the loop over the tables
table_lines(store, table, customer_identifier) ==
  lines_of_table(store, table, customer_identifier,
                 IF Truthy(customer_identifier)
                 THEN filter_table(store, table, customer_identifier, 1)
                 ELSE [col |-> "", rows |-> <<>>, queries |-> <<>>])

RECURSIVE snapshot_lines(_, _, _)
snapshot_lines(store, tables, customer_identifier) ==
  IF tables = <<>> THEN [lines |-> <<>>, queries |-> <<>>]
  ELSE
    LET first == table_lines(store, Head(tables), customer_identifier)
        rest == snapshot_lines(store, Tail(tables), customer_identifier)
    IN [lines |-> first.lines \o rest.lines, queries |-> first.queries \o rest.queries]

\* the snapshot once get_tables has ended with `tables` (its logged query)
snapshot_of_tables(customer_identifier, store, tables) ==
  IF ~tables.result.ok
  THEN [text |-> <<"(Failed to inspect database tables: ">> \o ErrText(tables.result.exc)
                 \o <<")">>,
        queries |-> <<tables>>]
  ELSE IF tables.result.val = <<>>
  THEN [text |-> <<"(No tables found in the database.)">>, queries |-> <<tables>>]
  ELSE
    LET body == snapshot_lines(store, tables.result.val, customer_identifier) IN
    [text |-> Join(<< <<"Database URI: ", "sqlite:///data/telecom.db">>,
                      <<"Discovered tables:">> >> \o body.lines, "\n"),
     queries |-> <<tables>> \o body.queries]

\* text: the snapshot; queries: the queries run_query was given, in order
build_db_snapshot(customer_identifier, store) ==
  snapshot_of_tables(customer_identifier, store, logged_tables("billing", store))

\* create_billing_crew and crew.kickoff on the snapshot; create_billing_crew raises
\* when the key is missing; r: what crew.kickoff does
kickoff(customer_identifier, query, key, snapshot, r) ==
  LET llm == billing_build_llm(key)
      inputs == [customer_identifier |-> IF Truthy(customer_identifier)
                                         THEN customer_identifier ELSE <<"unknown">>,
                 query |-> query,
                 db_snapshot |-> snapshot.text]
  IN IF ~llm.ok THEN Done(llm, snapshot.queries)
     ELSE Done(r, snapshot.queries \o << Call("llm", "billing_crew", inputs, r) >>)

process_billing_query(customer_identifier, query, key, store, r) ==
  kickoff(customer_identifier, query, key, build_db_snapshot(customer_identifier, store), r)

-----------------------------------------------------------------------------
(* agents/service_agents.py *)

NoRow == [py_none |-> TRUE]       \* None where a row is expected

\* profile["plans"]: None, or the list of rows the catalog query returned
NoPlans == [loaded |-> FALSE, rows |-> <<>>]
Plans(rows) == [loaded |-> TRUE, rows |-> rows]

\* bool(plans): None and [] are both false
PlansTruthy(plans) == plans.loaded /\ plans.rows # <<>>

\* the first of the keys, in the order the code reads them, that row lacks, or ""
MissingKey(row, keys) ==
  IF \E i \in 1..Len(keys) : keys[i] \notin DOMAIN row
  THEN keys[CHOOSE i \in 1..Len(keys) :
              /\ keys[i] \notin DOMAIN row
              /\ \A j \in 1..(i - 1) : keys[j] \in DOMAIN row]
  ELSE ""

\* the loop that looks plan_id up in the catalog: the first match, or None
RECURSIVE find_plan(_, _)
find_plan(plans, plan_id) ==
  IF plans = <<>> THEN Ok(NoRow)
  ELSE IF "plan_id" \notin DOMAIN Head(plans) THEN Raise(KeyError("plan_id"))
  ELSE IF Head(plans).plan_id = plan_id THEN Ok(Head(plans))
  ELSE find_plan(Tail(plans), plan_id)

\* run_query("SELECT * FROM service_plans"), as the value of profile["plans"]
run_query_plans(store) ==
  LET q == logged_query("plan", store, "service_plans", "", Null, "", 0)
  IN Done(IF q.result.ok THEN Ok(Plans(q.result.val)) ELSE q.result, <<q>>)

Profile(customer, current_plan, usage, plans) ==
  [customer |-> customer, current_plan |-> current_plan, usage |-> usage, plans |-> plans]

\* _load_customer_profile, from its last statement back to its first: each stage
\* takes what the statements before it have computed and qs, the queries they issued

\* usage_rows: the query on customer_usage
profile_with_usage(customer, current_plan, plans, usage_rows, qs) ==
  Done(IF ~usage_rows.result.ok THEN usage_rows.result
       ELSE Ok(Profile(customer, current_plan,
                       IF usage_rows.result.val # <<>> THEN usage_rows.result.val[1]
                       ELSE NoRow,
                       plans)),
       qs \o <<usage_rows>>)

\* "Load latest usage"
load_usage(customer, current_plan, plans, tables, store, qs) ==
  IF "customer_usage" \notin Range(tables)
  THEN Done(Ok(Profile(customer, current_plan, NoRow, plans)), qs)
  ELSE IF "customer_id" \notin DOMAIN customer THEN Done(Raise(KeyError("customer_id")), qs)
  ELSE profile_with_usage(customer, current_plan, plans,
                          logged_query("plan", store, "customer_usage", "customer_id",
                                       customer.customer_id, "billing_period_end", 1),
                          qs)

\* current: what the loop over the catalog did
profile_with_plan(customer, current, plans, tables, store, qs) ==
  IF ~current.ok THEN Done(current, qs)
  ELSE load_usage(customer, current.val, plans, tables, store, qs)

\* "Load current plan"
load_current_plan(customer, plans, tables, store, qs) ==
  profile_with_plan(customer,
                    IF /\ "service_plan_id" \in DOMAIN customer
                       /\ ValTruthy(customer.service_plan_id)
                       /\ PlansTruthy(plans)
                    THEN find_plan(plans.rows, customer.service_plan_id)
                    ELSE Ok(NoRow),
                    plans, tables, store, qs)

\* rows: the query on customers
profile_with_customer(rows, plans, tables, store, qs) ==
  IF ~rows.result.ok THEN Done(rows.result, qs \o <<rows>>)
  ELSE IF rows.result.val = <<>>
  THEN Done(Ok(Profile(NoRow, NoRow, NoRow, plans)), qs \o <<rows>>)
  ELSE load_current_plan(rows.result.val[1], plans, tables, store, qs \o <<rows>>)

\* "Load customer details"
load_customer(customer_email, plans, tables, store, qs) ==
  IF ~Truthy(customer_email) THEN Done(Ok(Profile(NoRow, NoRow, NoRow, plans)), qs)
  ELSE profile_with_customer(
         logged_query("plan", store, "customers", "email", Text(customer_email), "", 1),
         plans, tables, store, qs)

\* plans_q: what the query on service_plans did
profile_with_plans(customer_email, plans_q, tables, store, qs) ==
  IF ~plans_q.res.ok THEN Done(plans_q.res, qs \o plans_q.calls)
  ELSE load_customer(customer_email, plans_q.res.val, tables, store, qs \o plans_q.calls)

\* "Load all plans"; tables: the get_tables call
load_plans(customer_email, tables, store) ==
  IF ~tables.result.ok THEN Done(tables.result, <<tables>>)
  ELSE profile_with_plans(customer_email,
                          IF "service_plans" \in Range(tables.result.val)
                          THEN run_query_plans(store)
                          ELSE Done(Ok(NoPlans), <<>>),
                          tables.result.val, store, <<tables>>)

\* res: the profile, or the exception of the query that failed; calls: the queries
load_customer_profile(customer_email, store) ==
  load_plans(customer_email, logged_tables("plan", store), store)

\* the keys _format_plan reads, in the order it reads them
PlanKeys(p) ==
  LET limit(flag, col) == IF flag \in DOMAIN p /\ ~ValTruthy(p[flag]) THEN <<col>> ELSE <<>>
  IN <<"unlimited_data">> \o limit("unlimited_data", "data_limit_gb")
     \o <<"unlimited_voice">> \o limit("unlimited_voice", "voice_minutes")
     \o <<"unlimited_sms">> \o limit("unlimited_sms", "sms_count")
     \o <<"name", "plan_id", "monthly_cost">>

format_plan(p) ==
  LET missing == MissingKey(p, PlanKeys(p)) IN
  IF missing # "" THEN Raise(KeyError(missing))
  ELSE
    LET data == IF ValTruthy(p.unlimited_data) THEN <<"Unlimited">>
                ELSE p.data_limit_gb.s \o <<"GB">>
        voice == IF ValTruthy(p.unlimited_voice) THEN <<"Unlimited">>
                 ELSE p.voice_minutes.s \o <<" min">>
        sms == IF ValTruthy(p.unlimited_sms) THEN <<"Unlimited">>
               ELSE p.sms_count.s \o <<" SMS">>
    IN Ok(<<"- ">> \o p.name.s \o <<" (">> \o p.plan_id.s \o <<"): ">> \o p.monthly_cost.s
          \o <<" / month | ">> \o data \o <<" | ">> \o voice \o <<" | ">> \o sms)

\* "\n".join(_format_plan(p) for p in plans): the first plan that raises ends it
RECURSIVE format_plans(_)
format_plans(plans) ==
  IF plans = <<>> THEN Ok(<<>>)
  ELSE
    LET first == format_plan(Head(plans)) IN
    IF ~first.ok THEN first
    ELSE
      LET rest == format_plans(Tail(plans)) IN
      IF ~rest.ok THEN rest
      ELSE Ok(IF Tail(plans) = <<>> THEN first.val ELSE first.val \o <<"\n">> \o rest.val)

service_build_llm(key) ==
  IF ~Truthy(key)
  THEN Raise(Exception("RuntimeError", <<"Missing ", "OPENAI_API_KEY", " in .env">>))
  ELSE Ok("llm")

format_customer(customer, current_plan) ==
  IF customer # NoRow /\ current_plan # NoRow
  THEN
    LET mc == MissingKey(customer, <<"customer_id", "name">>)
        mp == MissingKey(current_plan, <<"name", "plan_id", "monthly_cost">>)
    IN IF mc # "" THEN Raise(KeyError(mc))
       ELSE IF mp # "" THEN Raise(KeyError(mp))
       ELSE Ok(<<"Customer ID: ">> \o customer.customer_id.s
               \o <<"\nName: ">> \o customer.name.s
               \o <<"\nCurrent Plan: ">> \o current_plan.name.s
               \o <<" (">> \o current_plan.plan_id.s \o <<")">>
               \o <<"\nMonthly Cost: ">> \o current_plan.monthly_cost.s \o <<"\n">>)
  ELSE Ok(<<"No customer profile available.\n">>)

format_usage(usage) ==
  IF usage # NoRow
  THEN
    LET m == MissingKey(usage, <<"billing_period_start", "billing_period_end", "data_used_gb",
                                 "voice_minutes_used", "sms_count_used", "total_bill_amount">>)
    IN IF m # "" THEN Raise(KeyError(m))
       ELSE Ok(<<"Billing Period: ">> \o usage.billing_period_start.s
               \o <<" -> ">> \o usage.billing_period_end.s
               \o <<"\nLast Billing Period Usage:">>
               \o <<"\n- Data: ">> \o usage.data_used_gb.s \o <<" GB">>
               \o <<"\n- Voice: ">> \o usage.voice_minutes_used.s \o <<" min">>
               \o <<"\n- SMS: ">> \o usage.sms_count_used.s
               \o <<"\n- Total Bill Amount: ">> \o usage.total_bill_amount.s \o <<"\n">>)
  ELSE Ok(<<"No usage data available.\n">>)

\* plan_text: "(No plans)" when there is no catalog
format_catalog(plans) ==
  IF PlansTruthy(plans) THEN format_plans(plans.rows) ELSE Ok(<<"(No plans)">>)

\* the texts are built in this order, then the LLM, then the one model call;
\* the first step that raises ends the function. r: what llm.invoke does;
\* qs: the queries _load_customer_profile issued
recommend_with_texts(user_query, plan_text, customer_text, customer_usage_text, llm, r, qs) ==
  IF ~plan_text.ok THEN Done(plan_text, qs)
  ELSE IF ~customer_text.ok THEN Done(customer_text, qs)
  ELSE IF ~customer_usage_text.ok THEN Done(customer_usage_text, qs)
  ELSE IF ~llm.ok THEN Done(llm, qs)
  ELSE Done(r, qs \o << Call("llm", "plan",
                             [query |-> user_query,
                              customer_profile |-> customer_text.val,
                              usage |-> customer_usage_text.val,
                              plans |-> plan_text.val], r) >>)

\* profile: what _load_customer_profile did
recommend_with_profile(profile, user_query, key, r) ==
  IF ~profile.res.ok THEN Done(profile.res, profile.calls)
  ELSE recommend_with_texts(user_query,
                            format_catalog(profile.res.val.plans),
                            format_customer(profile.res.val.customer,
                                            profile.res.val.current_plan),
                            format_usage(profile.res.val.usage),
                            service_build_llm(key), r, profile.calls)

recommend_personalized_plan(customer_email, user_query, key, store, r) ==
  recommend_with_profile(load_customer_profile(customer_email, store), user_query, key, r)

-----------------------------------------------------------------------------
(* orchestration/graph.py: the handler nodes and the aggregator *)

\* customer_info.get("email") or customer_info.get("id"): the UI sets no "id"
identifier_of(s) == IF Truthy(s.customer_info.email) THEN s.customer_info.email ELSE None

\* {name: answer}: a dict with one entry, in insertion order
OneResponse(name, answer) == << [key |-> name, value |-> answer] >>

\* what a node hands to the graph: the new state or the exception it lets through,
\* the calls it issued and the value of _INDEX it leaves
NodeOut(res, cs, index) == [res |-> res, calls |-> cs, index |-> index]

\* handled returning the state it was given
handled_returns_state(s, name, out, apology, index) ==
  NodeOut(Ok(s), out.calls, index)

\* try: answer = <the agent>; except Exception as e: answer = <apology> + details;
\* return {**state, "intermediate_responses": {name: answer}}
handled(s, name, out, apology, index) ==
  NodeOut(Ok([s EXCEPT !.intermediate_responses =
                         OneResponse(name, IF out.res.ok THEN out.res.val
                                           ELSE apology \o <<"Technical details: ">>
                                                \o ErrText(out.res.exc))]),
          IF out.res.ok THEN out.calls ELSE out.calls \o << Caught(name, out.res.exc) >>,
          index)

\* crew_ai_node asking the first question of the transcript
crew_ai_node_from_history(s, key, db, index, r) ==
  handled(s, "crew_ai",
          process_billing_query(identifier_of(s),
                                IF s.chat_history = <<>> THEN s.query
                                ELSE s.chat_history[1].content,
                                key, db, r),
          <<"Sorry, I ran into a problem while analyzing your billing question.\n\n">>,
          index)

crew_ai_node(s, key, db, index, r) ==
  handled(s, "crew_ai",
          process_billing_query(identifier_of(s), s.query, key, db, r),
          <<"Sorry, I ran into a problem while analyzing your billing question.\n\n">>,
          index)

autogen_node(s, key, index, r1, r2) ==
  handled(s, "autogen",
          process_network_query(s.query, identifier_of(s), key, r1, r2),
          <<"Sorry, I ran into a problem while diagnosing your network issue.\n\n">>,
          index)

langchain_node(s, key, db, index, r) ==
  handled(s, "langchain",
          recommend_personalized_plan(s.customer_info.email, s.query, key, db, r),
          <<"Sorry, I had trouble generating a plan recommendation.\n\n">>,
          index)

\* no try around answer_knowledge_query: what it raises leaves the node
unhandled(s, name, out) ==
  IF out.res.ok
  THEN NodeOut(Ok([s EXCEPT !.intermediate_responses = OneResponse(name, out.res.val)]),
               out.calls, out.index)
  ELSE NodeOut(out.res, out.calls, out.index)

llamaindex_node(s, key, faiss, index, bf, bd, qe, r) ==
  unhandled(s, "llamaindex",
            answer_knowledge_query(s.query, s.customer_info.email, index, key, faiss,
                                   bf, bd, qe, r))

FallbackText ==
  <<"I'm not sure how to handle that.\n\n", "You can ask about:\n",
    "- Billing & account (charges, due dates, invoices)\n",
    "- Network issues (slow internet, no signal, call drops)\n",
    "- Plan recommendations (upgrade/downgrade, family plans)\n",
    "- Technical how-to (APN settings, VoLTE, roaming, eSIM)">>

fallback_handler(s, index) ==
  NodeOut(Ok([s EXCEPT !.intermediate_responses = OneResponse("fallback", FallbackText)]),
          <<>>, index)

SomethingWentWrong == <<"Something went wrong while generating a response.">>

\* formulate_response taking the value inserted last
formulate_response_last(s) ==
  LET responses == s.intermediate_responses
      final == IF responses # <<>> THEN responses[Len(responses)].value
               ELSE SomethingWentWrong
  IN [s EXCEPT !.final_response = final]

\* next(iter(responses.values())): the value inserted first
formulate_response(s) ==
  LET responses == s.intermediate_responses
      final == IF responses # <<>> THEN responses[1].value ELSE SomethingWentWrong
  IN [s EXCEPT !.final_response = final]

\* create_graph: the mapping of add_conditional_edges, and the plain edges
HandlerNodes ==
  {"crew_ai_node", "autogen_node", "langchain_node", "llamaindex_node", "fallback_handler"}

ConditionalEdges == [k \in HandlerNodes |-> k]

Edges == [n \in HandlerNodes \cup {"formulate_response"} |->
            IF n = "formulate_response" THEN "END" ELSE "formulate_response"]

-----------------------------------------------------------------------------
(* ui/streamlit_app.py *)

SessionKeys == {"authenticated", "user_type", "email", "chat_history",
                "graph", "graph_loaded", "graph_error"}

\* a session no script run has touched yet: no key is set
NewSession ==
  [keys |-> {}, authenticated |-> FALSE, user_type |-> "None", email |-> None,
   chat_history |-> <<>>, graph |-> "None", graph_loaded |-> FALSE, graph_error |-> None]

\* what create_graph does: the compiled graph, or an exception
CreateGraphResults ==
  { Ok("compiled"), Raise(Exception("ValueError", <<"graph could not be compiled">>)) }

\* created: what create_graph does if it is called
\* variant: a failed graph (stored as None) is created again on the next run
init_session_retrying(ss, created) ==
  LET s1 == [ss EXCEPT
               !.authenticated = IF "authenticated" \in ss.keys THEN @ ELSE FALSE,
               !.user_type = IF "user_type" \in ss.keys THEN @ ELSE "None",
               !.email = IF "email" \in ss.keys THEN @ ELSE None,
               !.chat_history = IF "chat_history" \in ss.keys THEN @ ELSE <<>>,
               !.keys = @ \cup {"authenticated", "user_type", "email", "chat_history"}]
  IN IF "graph" \in ss.keys /\ ss.graph # "None" THEN s1
     ELSE IF created.ok
       THEN [s1 EXCEPT !.graph = created.val, !.graph_loaded = TRUE, !.graph_error = None,
                       !.keys = @ \cup {"graph", "graph_loaded", "graph_error"}]
     ELSE [s1 EXCEPT !.graph = "None", !.graph_loaded = FALSE,
                     !.graph_error = created.exc.msg,
                     !.keys = @ \cup {"graph", "graph_loaded", "graph_error"}]

init_session(ss, created) ==
  LET s1 == [ss EXCEPT
               !.authenticated = IF "authenticated" \in ss.keys THEN @ ELSE FALSE,
               !.user_type = IF "user_type" \in ss.keys THEN @ ELSE "None",
               !.email = IF "email" \in ss.keys THEN @ ELSE None,
               !.chat_history = IF "chat_history" \in ss.keys THEN @ ELSE <<>>,
               !.keys = @ \cup {"authenticated", "user_type", "email", "chat_history"}]
  IN IF "graph" \in ss.keys THEN s1
     ELSE IF created.ok
       THEN [s1 EXCEPT !.graph = created.val, !.graph_loaded = TRUE, !.graph_error = None,
                       !.keys = @ \cup {"graph", "graph_loaded", "graph_error"}]
     ELSE [s1 EXCEPT !.graph = "None", !.graph_loaded = FALSE,
                     !.graph_error = created.exc.msg,
                     !.keys = @ \cup {"graph", "graph_loaded", "graph_error"}]

WarningSign == "(U+26A0 warning sign)"
CrossMark == "(U+274C cross mark)"

\* the guard of run_query_through_graph
graph_unavailable(ss) ==
  \/ ~(IF "graph_loaded" \in ss.keys THEN ss.graph_loaded ELSE FALSE)
  \/ ss.graph = "None"

init_error_text(ss) ==
  LET error_msg == IF "graph_error" \in ss.keys THEN ss.graph_error
                   ELSE <<"Graph is not initialized. Please check backend / database configuration.">>
  IN <<WarningSign, " System initialization error: ">> \o error_msg

initial_state(query, ss) ==
  [query |-> query,
   customer_info |-> [email |-> ss.email],
   classification |-> "",
   intermediate_responses |-> <<>>,
   final_response |-> <<>>,
   chat_history |-> ss.chat_history]

invoke_error_text(e) ==
  <<CrossMark, " Error while processing your request (possible DB/agent issue): ">> \o e.msg

\* run_query_result returning the bare message of the exception
run_query_result_bare(p, ss, s, e) ==
  IF p = "blocked" THEN init_error_text(ss)
  ELSE IF p = "raised" THEN e.msg
  ELSE s.final_response

\* what run_query_through_graph returns once the request stands at p
run_query_result(p, ss, s, e) ==
  IF p = "blocked" THEN init_error_text(ss)
  ELSE IF p = "raised" THEN invoke_error_text(e)
  ELSE s.final_response

\* `email and "@" in email`
valid_email(email) == Truthy(email) /\ Contains(email, <<"@">>)

\* the Login button
\* variant: any non-empty email address is accepted
login_any_email(ss, email, user_type) ==
  IF Truthy(email)
  THEN [ss EXCEPT !.authenticated = TRUE, !.user_type = user_type, !.email = email]
  ELSE ss

login(ss, email, user_type) ==
  IF valid_email(email)
  THEN [ss EXCEPT !.authenticated = TRUE, !.user_type = user_type, !.email = email]
  ELSE ss

\* logout leaving the transcript as it is
logout_keeps_history(ss) ==
  [ss EXCEPT !.authenticated = FALSE, !.user_type = "None", !.email = None]

\* the Logout button
logout(ss) ==
  [ss EXCEPT !.authenticated = FALSE, !.user_type = "None", !.email = None,
             !.chat_history = <<>>]

\* variant: every entry is stored under the role of the user
Message_always_user(role, content) == [role |-> "user", content |-> content]

Message(role, content) == [role |-> role, content |-> content]

-----------------------------------------------------------------------------
(* Inputs *)

Key == <<"sk-key">>

LoginEmails == {EmailA, EmailB, EmailC, <<>>, <<"b","o","b">>}

SampleQueries ==
  << <<"W","h","a","t"," ","i","s"," ","m","y"," ","c","u","r","r","e","n","t"," ","b","i","l","l","?">>,
     <<"M","y"," ","i","n","t","e","r","n","e","t"," ","i","s"," ","s","l","o","w">>,
     <<"R","e","c","o","m","m","e","n","d"," ","m","e"," ","a"," ","c","h","e","a","p","e","r"," ","p","l","a","n">>,
     <<"H","o","w"," ","d","o"," ","I"," ","e","n","a","b","l","e"," ","V","o","L","T","E","?">>,
     <<"h","e","l","l","o"," ","t","h","e","r","e">> >>

Fragments ==
  << <<"b","i","l","l">>,
     <<"B","I","L","L">>,
     <<"D","u","e">>,
     <<" ","d","a","t","e">>,
     <<"s","l","o","w">>,
     <<"5","G">>,
     <<"r","e">>,
     <<"c","a","l","l">>,
     <<"p","l","a","n">>,
     <<"P","a","c","k">>,
     <<"s">>,
     <<"h","o","w">>,
     <<"V","o","L","T","E">>,
     <<"h","e","l","l","o"," ">>,
     <<"?">> >>

\* the queries made of at most n fragments
RECURSIVE Composed(_)
Composed(n) ==
  IF n = 0 THEN {<<>>}
  ELSE LET shorter == Composed(n - 1)
       IN shorter \cup {q \o Fragments[k] : q \in shorter, k \in 1..Len(Fragments)}

AllKeywords ==
  Range(BillingKeywords) \cup Range(NetworkKeywords) \cup Range(PlanKeywords)
  \cup Range(KnowledgeKeywords)

Queries == Composed(MaxFrags) \cup AllKeywords \cup Range(SampleQueries)

NoException == Exception("", <<>>)

-----------------------------------------------------------------------------
(* The session: page load, login, logout, chat *)

Init ==
  /\ api_key \in {None, Key}
  /\ telecom_db \in Stores
  /\ has_faiss \in BOOLEAN
  /\ INDEX = "None"
  /\ session_state = NewSession
  /\ pc = "idle"
  /\ state = initial_state(<<>>, NewSession)
  /\ exc = NoException
  /\ calls = <<>>
  /\ trace = <<>>
  /\ returned = None
  /\ nreq = 0

\* main() runs for the first time in the session
PageLoad ==
  /\ pc = "idle"
  /\ session_state.keys # SessionKeys
  /\ \E created \in CreateGraphResults :
       session_state' = init_session(session_state, created)
  /\ UNCHANGED <<api_key, telecom_db, has_faiss, INDEX, pc, state, exc, calls, trace,
                 returned, nreq>>

\* a later run of main(): the page is drawn and waits for a widget; the run
\* that a widget starts calls init_session again before anything else
Rendered == pc = "idle" /\ session_state.keys = SessionKeys

Login ==
  /\ Rendered
  /\ ~session_state.authenticated
  /\ \E created \in CreateGraphResults, email \in LoginEmails,
        user_type \in {"Customer", "Admin"} :
       session_state' = login(init_session(session_state, created), email, user_type)
  /\ UNCHANGED <<api_key, telecom_db, has_faiss, INDEX, pc, state, exc, calls, trace,
                 returned, nreq>>

Logout ==
  /\ Rendered
  /\ session_state.authenticated
  /\ \E created \in CreateGraphResults :
       session_state' = logout(init_session(session_state, created))
  /\ UNCHANGED <<api_key, telecom_db, has_faiss, INDEX, pc, state, exc, calls, trace,
                 returned, nreq>>

\* customer_view: a prompt arrives; it is stored and run_query_through_graph starts
ChatInput ==
  /\ Rendered
  /\ session_state.authenticated
  /\ session_state.user_type = "Customer"
  /\ nreq < MaxRequests
  /\ \E created \in CreateGraphResults, k \in 1..Len(SampleQueries) :
       LET prompt == SampleQueries[k]
           ss == [init_session(session_state, created) EXCEPT
                    !.chat_history = Append(@, Message("user", prompt))]
       IN /\ session_state' = ss
          /\ IF graph_unavailable(ss)
             THEN pc' = "blocked" /\ UNCHANGED state
             ELSE pc' = "classify_query" /\ state' = initial_state(prompt, ss)
  /\ nreq' = nreq + 1
  /\ calls' = <<>>
  /\ trace' = <<>>
  /\ exc' = NoException
  /\ returned' = None
  /\ UNCHANGED <<api_key, telecom_db, has_faiss, INDEX>>

-----------------------------------------------------------------------------
(* graph.invoke: one node per step *)

\* the graph takes the step to node n with the node's output out
NodeStep(n, out) ==
  /\ trace' = Append(trace, n)
  /\ calls' = calls \o out.calls
  /\ INDEX' = out.index
  /\ IF out.res.ok
     THEN state' = out.res.val /\ pc' = Edges[n] /\ UNCHANGED exc
     ELSE pc' = "raised" /\ exc' = out.res.exc /\ UNCHANGED state
  /\ UNCHANGED <<api_key, telecom_db, has_faiss, session_state, returned, nreq>>

ClassifyStep ==
  /\ pc = "classify_query"
  /\ state' = classify_query(state)
  /\ trace' = Append(trace, "classify_query")
  /\ pc' = ConditionalEdges[route_query(state')]
  /\ UNCHANGED <<api_key, telecom_db, has_faiss, INDEX, session_state, exc, calls,
                 returned, nreq>>

CrewAiStep ==
  /\ pc = "crew_ai_node"
  /\ \E r \in LLMResults :
       NodeStep("crew_ai_node", crew_ai_node(state, api_key, telecom_db, INDEX, r))

AutogenStep ==
  /\ pc = "autogen_node"
  /\ \E r1 \in LLMResults, r2 \in LLMResults :
       NodeStep("autogen_node", autogen_node(state, api_key, INDEX, r1, r2))

LangchainStep ==
  /\ pc = "langchain_node"
  /\ \E r \in LLMResults :
       NodeStep("langchain_node", langchain_node(state, api_key, telecom_db, INDEX, r))

LlamaindexStep ==
  /\ pc = "llamaindex_node"
  /\ \E bf \in FaissBuildResults, bd \in DefaultBuildResults,
        qe \in QueryEngineResults, r \in LLMResults :
       NodeStep("llamaindex_node",
                llamaindex_node(state, api_key, has_faiss, INDEX, bf, bd, qe, r))

FallbackStep ==
  /\ pc = "fallback_handler"
  /\ NodeStep("fallback_handler", fallback_handler(state, INDEX))

FormulateStep ==
  /\ pc = "formulate_response"
  /\ state' = formulate_response(state)
  /\ trace' = Append(trace, "formulate_response")
  /\ pc' = Edges["formulate_response"]
  /\ UNCHANGED <<api_key, telecom_db, has_faiss, INDEX, session_state, exc, calls,
                 returned, nreq>>

\* run_query_through_graph returns and customer_view stores the answer
Respond ==
  /\ pc \in {"END", "raised", "blocked"}
  /\ returned' = run_query_result(pc, session_state, state, exc)
  /\ session_state' = [session_state EXCEPT
                         !.chat_history = Append(@, Message("assistant", returned'))]
  /\ pc' = "idle"
  /\ UNCHANGED <<api_key, telecom_db, has_faiss, INDEX, state, exc, calls, trace, nreq>>

GraphNext ==
  \/ ClassifyStep
  \/ CrewAiStep
  \/ AutogenStep
  \/ LangchainStep
  \/ LlamaindexStep
  \/ FallbackStep
  \/ FormulateStep
  \/ Respond

Next ==
  \/ PageLoad
  \/ Login
  \/ Logout
  \/ ChatInput
  \/ GraphNext

Spec == Init /\ [][Next]_vars

-----------------------------------------------------------------------------
(* One request on the graph, for every composed query *)

\* a customer's session in which the graph was compiled
CustomerSession(email) ==
  login(init_session(NewSession, Ok("compiled")), email, "Customer")

\* customer_view has stored the prompt and run_query_through_graph has built the state
GraphInit ==
  /\ api_key \in {None, Key}
  /\ telecom_db = DbFull
  /\ has_faiss = FALSE
  /\ INDEX = "None"
  /\ \E q \in Queries :
       /\ session_state = [CustomerSession(EmailA) EXCEPT
                             !.chat_history = <<Message("user", q)>>]
       /\ state = initial_state(q, session_state)
  /\ pc = "classify_query"
  /\ exc = NoException
  /\ calls = <<>>
  /\ trace = <<>>
  /\ returned = None
  /\ nreq = 1

GraphSpec == GraphInit /\ [][GraphNext]_vars

-----------------------------------------------------------------------------
(* Properties of the classifier and the router, checked under GraphSpec *)

Labels == {"billing_account", "network_troubleshooting", "service_recommendation",
           "knowledge_retrieval", "fallback"}

\* the request has been classified
Classified == trace # <<>>

\* the keyword sets in the order of their priority, each with its label
Priority ==
  << [label |-> "billing_account", words |-> BillingKeywords],
     [label |-> "network_troubleshooting", words |-> NetworkKeywords],
     [label |-> "service_recommendation", words |-> PlanKeywords],
     [label |-> "knowledge_retrieval", words |-> KnowledgeKeywords] >>

\* set k has a keyword that occurs in the lowercased query
Matches(query, k) ==
  \E i \in 1..Len(Priority[k].words) : Contains(lower(query), Priority[k].words[i])

\* C1: the label of a classified request is the label of the first keyword set, in the
\* order billing > network > plan > knowledge, that has a keyword occurring in the
\* lowercased query.
C1_PriorityOrder ==
  Classified =>
    \A k \in 1..Len(Priority) :
      (Matches(state.query, k) /\ \A j \in 1..(k - 1) : ~Matches(state.query, j))
        => state.classification = Priority[k].label

\* a query with a billing and a network keyword has been classified billing_account
C1_Witness ==
  /\ Classified
  /\ Matches(state.query, 1)
  /\ Matches(state.query, 2)
  /\ state.classification = "billing_account"

\* C2: every classified request, the one with the empty query included, carries one of
\* the five labels, and the label is fallback exactly if no keyword of the four sets
\* occurs in the lowercased query.
C2_TotalAndFallback ==
  Classified =>
    /\ state.classification \in Labels
    /\ state.classification = "fallback"
         <=> \A k \in 1..Len(Priority) : ~Matches(state.query, k)

\* the empty query has been classified fallback
C2_Witness ==
  Classified /\ state.query = <<>> /\ state.classification = "fallback"

\* the handler node the claim names for each label
HandlerOf ==
  [l \in Labels |->
     IF l = "billing_account" THEN "crew_ai_node"
     ELSE IF l = "network_troubleshooting" THEN "autogen_node"
     ELSE IF l = "service_recommendation" THEN "langchain_node"
     ELSE IF l = "knowledge_retrieval" THEN "llamaindex_node"
     ELSE "fallback_handler"]

\* C3: route_query sends each of the five labels to its own handler node, different
\* labels to different nodes; every node it names is a key of the conditional-edge
\* table; the label of a classified request is one of the five, and the node the graph
\* enters after classify_query is the one of that label.
C3_RouteLookup ==
  /\ \A l \in Labels :
       /\ route_query([state EXCEPT !.classification = l]) = HandlerOf[l]
       /\ route_query([state EXCEPT !.classification = l]) \in DOMAIN ConditionalEdges
  /\ \A l1 \in Labels, l2 \in Labels :
       l1 # l2 => route_query([state EXCEPT !.classification = l1])
                  # route_query([state EXCEPT !.classification = l2])
  /\ Classified => state.classification \in Labels
  /\ trace = <<"classify_query">> => pc = HandlerOf[state.classification]

\* a request classified knowledge_retrieval stands at llamaindex_node
C3_Witness ==
  /\ trace = <<"classify_query">>
  /\ state.classification = "knowledge_retrieval"
  /\ pc = "llamaindex_node"

-----------------------------------------------------------------------------
(* The aggregator on its own, for every mapping of at most MaxEntries entries *)

ResponseKeys == {"crew_ai", "autogen", "langchain", "llamaindex", "fallback"}

\* the dicts of at most n entries, as the sequence of their items in insertion order
RECURSIVE Mappings(_)
Mappings(n) ==
  IF n = 0 THEN {<<>>}
  ELSE LET shorter == Mappings(n - 1)
       IN shorter \cup
          {Append(m, [key |-> k, value |-> v]) :
             m \in {x \in shorter : Len(x) = n - 1},
             k \in ResponseKeys, v \in LLMTexts}

DistinctKeys(m) == \A i \in 1..Len(m), j \in 1..Len(m) : i # j => m[i].key # m[j].key

AggInit ==
  /\ api_key = Key
  /\ telecom_db = DbFull
  /\ has_faiss = FALSE
  /\ INDEX = "None"
  /\ session_state = [CustomerSession(EmailA) EXCEPT
                        !.chat_history = <<Message("user", SampleQueries[1])>>]
  /\ \E m \in {x \in Mappings(MaxEntries) : DistinctKeys(x)} :
       state = [initial_state(SampleQueries[1], session_state) EXCEPT
                  !.intermediate_responses = m]
  /\ pc = "formulate_response"
  /\ exc = NoException
  /\ calls = <<>>
  /\ trace = <<>>
  /\ returned = None
  /\ nreq = 1

AggSpec == AggInit /\ [][FormulateStep \/ Respond]_vars

\* C4: once formulate_response has run, final_response is the fixed message if the
\* mapping is empty and the value inserted first if it is not.
C4_FirstInserted ==
  pc = "END" =>
    LET responses == state.intermediate_responses IN
    /\ responses = <<>> =>
         state.final_response = <<"Something went wrong while generating a response.">>
    /\ responses # <<>> => state.final_response = responses[1].value

\* the aggregator has run on a mapping of two entries with different values
C4_Witness ==
  /\ pc = "END"
  /\ Len(state.intermediate_responses) = 2
  /\ state.intermediate_responses[1].value # state.intermediate_responses[2].value
  /\ state.final_response = state.intermediate_responses[1].value

-----------------------------------------------------------------------------
(* Properties of a request in a session, checked under Spec *)

DomainNodes == {"crew_ai_node", "autogen_node", "langchain_node", "llamaindex_node"}

\* the key under which each handler node stores its answer
KeyOfNode ==
  [n \in HandlerNodes |->
     IF n = "crew_ai_node" THEN "crew_ai"
     ELSE IF n = "autogen_node" THEN "autogen"
     ELSE IF n = "langchain_node" THEN "langchain"
     ELSE IF n = "llamaindex_node" THEN "llamaindex"
     ELSE "fallback"]

\* the handler node has been entered; it has returned
HandlerEntered == Len(trace) >= 2
HandlerReturned == HandlerEntered /\ exc = NoException

\* the entries of the log of the given kind
LogOf(kind) == SelectSeq(calls, LAMBDA c : c.kind = kind)

InvokeOver == pc \in {"END", "raised"} \/ (pc = "idle" /\ Classified)

IsPrefix(a, b) == Len(a) <= Len(b) /\ SubSeq(b, 1, Len(a)) = a

\* C6: the nodes of a request run in the order classify_query, the handler route_query
\* selects, formulate_response, none twice and none skipped, and when the graph is
\* done final_response is the text of that handler.
C6_StagesInOrder ==
  Classified =>
    LET full == <<"classify_query", HandlerOf[state.classification], "formulate_response">>
    IN /\ IsPrefix(trace, full)
       /\ InvokeOver => /\ trace = full
                        /\ Len(state.intermediate_responses) = 1
                        /\ state.final_response = state.intermediate_responses[1].value

\* C7: no exception leaves a domain handler node: whatever step raises, the node
\* returns a text that embeds the type name and the message of the error.
C7_HandlersNeverRaise ==
  /\ pc # "raised"
  /\ (HandlerReturned /\ trace[2] \in DomainNodes) =>
       LET caught == SelectSeq(calls, LAMBDA c : c.kind = "caught" /\ c.agent # "_get_index")
       IN caught # <<>> =>
            Contains(state.intermediate_responses[1].value,
                     ErrText(caught[Len(caught)].result.exc))

\* the markers a returned text can begin with
Markers == {WarningSign, CrossMark}

\* run_query_through_graph has returned
Returned == returned # None

\* the exceptions of the request that an except clause turned into the answer (the
\* fall-back from the FAISS index to the default index is no such answer)
Failures == SelectSeq(calls, LAMBDA c : c.kind = "caught" /\ c.agent # "_get_index")

\* the request met an error: the graph was not available, graph.invoke raised, or an
\* agent or node caught an exception
ErrorOccurred == trace = <<>> \/ exc # NoException \/ Failures # <<>>

C9_MissingKeyReported ==
  (api_key = None /\ HandlerEntered /\ trace[2] \in DomainNodes) =>
    /\ pc # "raised"
    /\ LogOf("llm") = <<>>
    /\ HandlerReturned =>
         "OPENAI_API_KEY" \in Range(state.intermediate_responses[1].value)

\* C10: the network handler issues the diagnostic call first and the resolution call
\* only after it returned, with its output as input; when both return, the text is the
\* diagnostics section followed by the explanation section; when the diagnostic call
\* raises, no resolution call is issued and the text is one failure string.
C10_DiagnosticThenResolution ==
  (HandlerReturned /\ trace[2] = "autogen_node") =>
    LET llm == LogOf("llm")
        text == state.intermediate_responses[1].value
    IN /\ Len(llm) <= 2
       /\ Len(llm) >= 1 => llm[1].agent = "diagnostics"
       /\ Len(llm) = 2 => /\ llm[2].agent = "resolution"
                          /\ llm[1].result.ok
                          /\ llm[2].input.diagnostics_summary = llm[1].result.val
       /\ (Len(llm) = 2 /\ llm[2].result.ok) =>
            text = <<"### Network Diagnostics (Internal)\n">> \o llm[1].result.val
                   \o <<"\n\n", "### Final Explanation\n">> \o llm[2].result.val
       /\ (Len(llm) >= 1 /\ ~llm[1].result.ok) =>
            /\ Len(llm) = 1
            /\ text = <<"Network troubleshooting failed: ">> \o ErrText(llm[1].result.exc)

\* both calls returned, with different texts
C10_Witness ==
  /\ HandlerReturned
  /\ trace[2] = "autogen_node"
  /\ Len(LogOf("llm")) = 2
  /\ LogOf("llm")[2].result.ok
  /\ LogOf("llm")[1].result.val # LogOf("llm")[2].result.val

-----------------------------------------------------------------------------
(* The billing handler on its own: graph.invoke on a billing question, for every store
   and for a caller with and without an identity *)

\* what customer_info carries as email: nothing, an email of the store, an unknown
\* email, a customer id
BillingIdentities == {None, EmailA, EmailB, EmailC, <<"C1">>}

BillingQuestions == {SampleQueries[1]} \cup Range(BillingKeywords)

BillingInit ==
  /\ api_key \in {None, Key}
  /\ telecom_db \in Stores
  /\ has_faiss = FALSE
  /\ INDEX = "None"
  /\ \E q \in BillingQuestions, id \in BillingIdentities :
       /\ session_state = [CustomerSession(EmailA) EXCEPT
                             !.chat_history = <<Message("user", q)>>]
       /\ state = [initial_state(q, session_state) EXCEPT !.customer_info = [email |-> id]]
  /\ pc = "classify_query"
  /\ exc = NoException
  /\ calls = <<>>
  /\ trace = <<>>
  /\ returned = None
  /\ nreq = 1

BillingNext == ClassifyStep \/ CrewAiStep \/ FormulateStep \/ Respond

BillingSpec == BillingInit /\ [][BillingNext]_vars

\* the billing handler has returned
BillingDone == HandlerReturned /\ trace[2] = "crew_ai_node"

\* the queries of the context builder on the tables, in the order issued
TableQueries ==
  SelectSeq(calls, LAMBDA c : c.kind = "query" /\ c.agent = "billing"
                              /\ c.input.table # "sqlite_master")

\* the tables get_tables found, << >> when it failed
Discovered ==
  LET listing == SelectSeq(calls, LAMBDA c : c.kind = "query" /\ c.agent = "billing"
                                             /\ c.input.table = "sqlite_master")
  IN IF listing # <<>> /\ listing[1].result.ok THEN listing[1].result.val ELSE <<>>

FilteredOn(t) == SelectSeq(TableQueries, LAMBDA c : c.input.table = t /\ c.input.wcol # "")
SampleOn(t) == SelectSeq(TableQueries, LAMBDA c : c.input.table = t /\ c.input.wcol = "")
Filtered == SelectSeq(TableQueries, LAMBDA c : c.input.wcol # "")
Samples == SelectSeq(TableQueries, LAMBDA c : c.input.wcol = "")

\* the query returned rows
Matched(c) == c.result.ok /\ c.result.val # <<>>

\* position of table t in the listing
TableIndex(t) == CHOOSE i \in 1..Len(Discovered) : Discovered[i] = t

\* C11 as stated: the builder stops at the first table/column combination that yields
\* rows, and samples tables only if no combination matched in any table.
C11_StopsAtFirstMatch ==
  BillingDone =>
    /\ \A i \in 1..Len(Filtered) : Matched(Filtered[i]) => i = Len(Filtered)
    /\ Samples # <<>> => \A i \in 1..Len(Filtered) : ~Matched(Filtered[i])

\* C11 as amended: the builder visits the discovered tables in order; on each table it
\* tries the candidate columns in their fixed order and stops, for that table, at the
\* first column whose query yields rows; a table on which no column yielded rows, and
\* every table when there is no identifier, gets one unfiltered sample query.
C11_PerTableFirstMatch ==
  BillingDone =>
    /\ \A i \in 1..Len(TableQueries) : TableQueries[i].input.table \in Range(Discovered)
    /\ \A i, j \in 1..Len(TableQueries) :
         i < j => /\ TableIndex(TableQueries[i].input.table)
                     <= TableIndex(TableQueries[j].input.table)
                  /\ TableQueries[i].input.table = TableQueries[j].input.table
                       => TableQueries[i].input.wcol # ""
    /\ \A t \in Range(Discovered) :
         LET ft == FilteredOn(t)
             st == SampleOn(t)
         IN /\ Len(ft) <= Len(candidate_columns)
            /\ \A i \in 1..Len(ft) :
                 /\ ft[i].input.wcol = candidate_columns[i]
                 /\ ft[i].input.val = Text(identifier_of(state))
                 /\ i < Len(ft) => ~Matched(ft[i])
            /\ ~Truthy(identifier_of(state)) => ft = <<>>
            /\ IF ft # <<>> /\ Matched(ft[Len(ft)])
               THEN st = <<>>
               ELSE /\ Len(st) = 1
                    /\ Truthy(identifier_of(state)) => Len(ft) = Len(candidate_columns)

\* one table matched on its third candidate column and another table was sampled
C11_Witness ==
  /\ BillingDone
  /\ \E i \in 1..Len(Filtered) : Matched(Filtered[i]) /\ Filtered[i].input.wcol = "email"
  /\ Samples # <<>>

\* the model calls of the request
ModelCalls == LogOf("llm")

\* "What is my current bill?" asked by a caller without identity
AnonymousBill == state.query = SampleQueries[1] /\ ~Truthy(state.customer_info.email)

\* C12: "What is my current bill?" without identity is classified billing_account and
\* handled by the billing node with the identifier absent; the context builder issues
\* no filtered query and one sample query per discovered table; the node returns a
\* non-empty text and raises nothing, whatever the store holds or does.
C12_AnonymousBill ==
  AnonymousBill =>
    /\ pc # "raised"
    /\ Classified => state.classification = "billing_account"
    /\ HandlerEntered => trace[2] = "crew_ai_node"
    /\ BillingDone =>
         /\ Filtered = <<>>
         /\ Len(Samples) = Len(Discovered)
         /\ \A t \in Range(Discovered) : Len(SampleOn(t)) = 1
         /\ state.intermediate_responses[1].value # <<>>
         /\ \A i \in 1..Len(ModelCalls) :
              /\ ModelCalls[i].input.customer_identifier = <<"unknown">>
              /\ ModelCalls[i].input.db_snapshot # <<>>

\* the anonymous request was handled on a store whose every table query failed, and
\* the model was called
C12_Witness ==
  /\ AnonymousBill
  /\ BillingDone
  /\ Samples # <<>>
  /\ \A i \in 1..Len(Samples) : ~Samples[i].result.ok
  /\ ModelCalls # <<>>

-----------------------------------------------------------------------------
(* The plan handler, checked under Spec *)

\* the plan handler has returned
PlanDone == HandlerReturned /\ trace[2] = "langchain_node"

\* the rows of a table of the store, << >> when the store has no such table
RowsOf(table) ==
  IF ~telecom_db.broken /\ table \in Range(telecom_db.names) /\ ~telecom_db.tables[table].corrupt
  THEN telecom_db.tables[table].rows
  ELSE <<>>

\* the rows of customers with the email of the request
CustomerRows == SelectSeq(RowsOf("customers"),
                          LAMBDA c : c.email = Text(state.customer_info.email))

\* the usage rows of customer c
UsageOf(c) == SelectSeq(RowsOf("customer_usage"), LAMBDA u : u.customer_id = c.customer_id)

\* the catalog entries with the plan id of customer c
PlanOf(c) == SelectSeq(RowsOf("service_plans"), LAMBDA p : p.plan_id = c.service_plan_id)

\* text t holds the string of column value v
Shows(t, v) == \A i \in 1..Len(v.s) : v.s[i] \in Range(t)

\* C13: when the email of a plan request is in the store, the handler issues at most one
\* model call, and that call gets the query, the customer, the customer's current plan
\* (the catalog entry with the customer's service_plan_id), the usage row with the
\* greatest billing_period_end and the whole catalog.
C13_FourBlobs ==
  (PlanDone /\ CustomerRows # <<>>) =>
    LET customer == CustomerRows[1] IN
    /\ Len(ModelCalls) <= 1
    /\ \A i \in 1..Len(ModelCalls) :
         LET blobs == ModelCalls[i].input IN
         /\ blobs.query = state.query
         /\ Shows(blobs.customer_profile, customer.customer_id)
         /\ Shows(blobs.customer_profile, customer.name)
         /\ \A k \in 1..Len(PlanOf(customer)) :
              Shows(blobs.customer_profile, PlanOf(customer)[k].name)
         /\ \A k \in 1..Len(UsageOf(customer)) :
              \E j \in 1..Len(UsageOf(customer)) :
                 /\ DateRank(UsageOf(customer)[k].billing_period_end)
                      <= DateRank(UsageOf(customer)[j].billing_period_end)
                 /\ Shows(blobs.usage, UsageOf(customer)[j].billing_period_end)
                 /\ Shows(blobs.usage, UsageOf(customer)[j].total_bill_amount)
         /\ \A k \in 1..Len(RowsOf("service_plans")) :
              Shows(blobs.plans, RowsOf("service_plans")[k].plan_id)

\* the run_query calls of the request that raised
FailedQueries == SelectSeq(calls, LAMBDA c : c.kind = "query" /\ ~c.result.ok)

\* a handler that reads the data store has returned
StoreHandlerDone == HandlerReturned /\ trace[2] \in {"crew_ai_node", "langchain_node"}

\* C14: when a query of the billing or the plan handler raises, the exception is not
\* what ends the handler: it is not the exception the handler reports, and with an API
\* key configured the handler still reaches its model call.
C14_DataErrorsSkipped ==
  (StoreHandlerDone /\ FailedQueries # <<>>) =>
    /\ \A i \in 1..Len(Failures), j \in 1..Len(FailedQueries) :
         Failures[i].result.exc # FailedQueries[j].result.exc
    /\ api_key # None => ModelCalls # <<>>

-----------------------------------------------------------------------------
(* The session, checked under Spec *)

\* C15 as stated: every step of the session leaves the earlier transcript as a prefix
\* of the later one.
C15_AppendOnly ==
  [][IsPrefix(session_state.chat_history, session_state'.chat_history)]_vars

\* C15 as amended: every step other than Logout leaves the earlier transcript as a
\* prefix of the later one; Logout empties the transcript.
C15_AppendOnlyUntilLogout ==
  [][IF Logout
     THEN session_state'.chat_history = <<>>
     ELSE IsPrefix(session_state.chat_history, session_state'.chat_history)]_vars

\* the second request of the session was answered and the transcript holds that request
\* alone: the first was appended, then removed by Logout
C15_Witness ==
  /\ nreq = 2
  /\ Returned
  /\ Len(session_state.chat_history) = 2

\* C16: classify_query changes only classification, a handler node only
\* intermediate_responses, formulate_response only final_response; hence query,
\* customer_info and chat_history are changed by no stage, and classification by none
\* after classify_query.
C16_FrameEffects ==
  [][/\ pc = "classify_query" =>
          state' = [state EXCEPT !.classification = state'.classification]
     /\ pc \in HandlerNodes =>
          state' = [state EXCEPT !.intermediate_responses = state'.intermediate_responses]
     /\ pc = "formulate_response" =>
          state' = [state EXCEPT !.final_response = state'.final_response]
     /\ pc \in {"END", "raised"} => state' = state]_vars

\* a request went through the three stages and each wrote its field
C16_Witness ==
  /\ pc = "END"
  /\ state.query = SampleQueries[1]
  /\ state.classification = "billing_account"
  /\ state.intermediate_responses # <<>>
  /\ state.final_response # <<>>
  /\ state.chat_history # <<>>

-----------------------------------------------------------------------------
(* The semantic index over the requests of a process, checked under Spec *)

\* the calls of _build_index_faiss and _build_index_default in a log
BuildsIn(cs) == SelectSeq(cs, LAMBDA c : c.kind = "build")

\* the knowledge handler was entered
KnowledgeEntered == HandlerEntered /\ trace[2] = "llamaindex_node"

\* the request before this one, in the same login, was a knowledge query
AfterKnowledgeQuery ==
  /\ Len(session_state.chat_history) >= 3
  /\ classify_label(session_state.chat_history[1].content) = "knowledge_retrieval"

-----------------------------------------------------------------------------
(* The connections of run_query, checked under Spec *)

\* the connections that the run_query calls of the request had not closed when they left
OpenConnections == SelectSeq(LogOf("query"), LAMBDA c : leaves_open(c.result))

\* C18: every run_query call of the request, failed ones included, has closed its
\* connection when it leaves: no connection is open.
C18_ConnectionsClosed == Len(OpenConnections) = 0

-----------------------------------------------------------------------------
(* The transcript and the request, checked under Spec *)

\* transcripts a request could carry instead of its own
Histories ==
  { <<>>,
    << Message("user", SampleQueries[5]) >>,
    << Message("user", SampleQueries[1]), Message("assistant", FallbackText),
       Message("user", SampleQueries[4]) >> }

\* two runs of a node did the same: same calls with the same arguments, same _INDEX,
\* same answer or same exception
SameOut(a, b) ==
  /\ a.calls = b.calls
  /\ a.index = b.index
  /\ a.res.ok = b.res.ok
  /\ IF a.res.ok
     THEN a.res.val.intermediate_responses = b.res.val.intermediate_responses
     ELSE a.res.exc = b.res.exc

\* the request state with transcript h in place of its own
WithHistory(h) == [state EXCEPT !.chat_history = h]

\* C19: the stage the request is at does the same on the request state and on the same
\* state with any other transcript, the services answering alike: same classification
\* and handler, same calls with the same arguments, same answer, same final response.
C19_HistoryIgnored ==
  \A h \in Histories :
    /\ pc = "classify_query" =>
         /\ classify_query(WithHistory(h)).classification
              = classify_query(state).classification
         /\ route_query(classify_query(WithHistory(h))) = route_query(classify_query(state))
    /\ pc = "crew_ai_node" =>
         \A r \in LLMResults :
            SameOut(crew_ai_node(WithHistory(h), api_key, telecom_db, INDEX, r),
                    crew_ai_node(state, api_key, telecom_db, INDEX, r))
    /\ pc = "autogen_node" =>
         \A r1 \in LLMResults, r2 \in LLMResults :
            SameOut(autogen_node(WithHistory(h), api_key, INDEX, r1, r2),
                    autogen_node(state, api_key, INDEX, r1, r2))
    /\ pc = "langchain_node" =>
         \A r \in LLMResults :
            SameOut(langchain_node(WithHistory(h), api_key, telecom_db, INDEX, r),
                    langchain_node(state, api_key, telecom_db, INDEX, r))
    /\ pc = "llamaindex_node" =>
         \A bf \in FaissBuildResults, bd \in DefaultBuildResults,
            qe \in QueryEngineResults, r \in LLMResults :
            SameOut(llamaindex_node(WithHistory(h), api_key, has_faiss, INDEX, bf, bd, qe, r),
                    llamaindex_node(state, api_key, has_faiss, INDEX, bf, bd, qe, r))
    /\ pc = "fallback_handler" =>
         SameOut(fallback_handler(WithHistory(h), INDEX), fallback_handler(state, INDEX))
    /\ pc = "formulate_response" =>
         formulate_response(WithHistory(h)).final_response
           = formulate_response(state).final_response

\* the second request of a login, whose transcript holds the first, reached the model
C19_Witness ==
  /\ nreq = 2
  /\ HandlerReturned
  /\ Len(state.chat_history) = 3
  /\ ModelCalls # <<>>

-----------------------------------------------------------------------------
(* Retries, checked under Spec *)

\* the steps that can fail: model calls, data store queries, document loads, index builds
StepKinds == {"llm", "query", "load", "build"}

\* entry c of the log is a step that failed
FailedStep(c) == c.kind \in StepKinds /\ ~c.result.ok

\* entries c and d are attempts of the same step: the same operation on the same
\* arguments; a document load is the same operation whichever builder asks for it
SameStep(c, d) ==
  /\ c.kind = d.kind
  /\ c.kind = "load" \/ c.agent = d.agent
  /\ c.input = d.input

\* the FAISS builder failed to load the documents and the default builder loads them again
Reload(c, d) == c.kind = "load" /\ c.agent = "faiss" /\ d.agent = "default"

\* C20 as stated: within a request no step that failed is attempted again.
C20_NoRetry ==
  \A i, j \in 1..Len(calls) :
     (i < j /\ FailedStep(calls[i])) => ~SameStep(calls[i], calls[j])

\* C20 as amended: within a request no step that failed is attempted again, but for the
\* document load, which the default builder repeats after the FAISS builder has failed;
\* and steps are only ever issued by the handler node of the request at hand.
C20_NoRetryButReload ==
  [][/\ \A i, j \in 1..Len(calls') :
          (i < j /\ FailedStep(calls'[i]) /\ SameStep(calls'[i], calls'[j]))
            => Reload(calls'[i], calls'[j])
     /\ Len(SelectSeq(calls', LAMBDA c : c.kind = "load")) <= 2
     /\ calls' # calls => (pc \in HandlerNodes \/ calls' = <<>>)]_vars

\* a model call failed in a request that went on to its answer, and a document load that
\* failed was followed by the load of the default builder
C20_Witness ==
  /\ KnowledgeEntered
  /\ \E i, j \in 1..Len(calls) :
        i < j /\ FailedStep(calls[i]) /\ Reload(calls[i], calls[j])
  /\ \E i \in 1..Len(calls) : calls[i].kind = "llm" /\ FailedStep(calls[i])

-----------------------------------------------------------------------------
(* the graph of a session *)

GraphPart(ss) == <<ss.graph, ss.graph_loaded, ss.graph_error>>

\* create_graph was attempted in this session
GraphAttempted == "graph" \in session_state.keys

\* create_graph raised in init_session
GraphFailed == GraphAttempted /\ ~session_state.graph_loaded

\* C21: graph initialisation is attempted at most once per session and its
\* failure is permanent: once create_graph was attempted, no later run of
\* init_session changes graph, graph_loaded or graph_error, and in a session
\* whose create_graph raised no node of the graph is ever entered, no
\* classifier or handler call is made and every answer returned is the
\* system-initialisation-error text with the stored error message.
C21_GraphInitOnce ==
  [][ /\ GraphAttempted =>
           /\ "graph" \in session_state'.keys
           /\ GraphPart(session_state') = GraphPart(session_state)
      /\ GraphFailed =>
           /\ pc' \in {"idle", "blocked"}
           /\ trace' = <<>>
           /\ calls' = <<>>
           /\ returned' # None =>
                returned' = <<WarningSign, " System initialization error: ">>
                              \o session_state.graph_error ]_vars

\* a session whose create_graph raised has answered its second request
C21_Witness ==
  /\ GraphFailed
  /\ nreq = 2
  /\ pc = "idle"
  /\ Len(session_state.chat_history) >= 2
  /\ returned = <<WarningSign, " System initialization error: ",
                  "graph could not be compiled">>

-----------------------------------------------------------------------------
(* login and logout *)

UserTypes == {"Customer", "Admin"}

\* the session has a user: email and user_type are both set
HasUser(ss) == ss.email # None /\ ss.user_type # "None"

\* C22: in every reachable session state authenticated is true if and only
\* if email and user_type are both set; the email of an authenticated
\* session is non-empty and contains "@"; a login with such an email sets
\* authenticated, user_type and email together and a login with any other
\* email leaves the session state as it is; a logout resets authenticated
\* to false, email and user_type to None and the transcript to empty, so a
\* session that is not authenticated has an empty transcript and a login
\* starts with an empty one.
C22_AuthenticatedIffUser ==
  /\ [](session_state.authenticated <=> HasUser(session_state))
  /\ [](session_state.authenticated =>
          /\ valid_email(session_state.email)
          /\ session_state.user_type \in UserTypes)
  /\ [](~session_state.authenticated => session_state.chat_history = <<>>)
  /\ [](\A email \in LoginEmails, user_type \in UserTypes :
          LET after == login(session_state, email, user_type)
          IN IF Truthy(email) /\ Contains(email, <<"@">>)
             THEN after = [session_state EXCEPT !.authenticated = TRUE,
                                                !.user_type = user_type,
                                                !.email = email]
             ELSE after = session_state)
  /\ [][ /\ (~session_state.authenticated /\ session_state'.authenticated) =>
              session_state'.chat_history = <<>>
         /\ (session_state.authenticated /\ ~session_state'.authenticated) =>
              /\ session_state'.email = None
              /\ session_state'.user_type = "None"
              /\ session_state'.chat_history = <<>>
              /\ GraphPart(session_state') = GraphPart(session_state) ]_vars

\* a user is logged in after an earlier login's request and logout: the
\* transcript is empty again
C22_Witness ==
  /\ session_state.authenticated
  /\ HasUser(session_state)
  /\ nreq >= 1
  /\ pc = "idle"
  /\ session_state.chat_history = <<>>

-----------------------------------------------------------------------------
(* the transcript *)

Transcript == session_state.chat_history

RoleAt(i) == IF i % 2 = 1 THEN "user" ELSE "assistant"

Alternates(h) == \A i \in 1..Len(h) : h[i].role = RoleAt(i)

\* a chat request is being answered
InRequest == pc # "idle"

\* C23: after every completed chat request the transcript has even length
\* and alternates user, assistant; a request appends exactly two entries:
\* first the user's prompt, when the request starts, and then, when
\* run_query_through_graph returns, the text it returned for that prompt,
\* also when the graph was not available or graph.invoke raised, where the
\* returned text is the error text.
C23_TranscriptAlternates ==
  /\ [](Alternates(Transcript))
  /\ [](Len(Transcript) % 2 = (IF InRequest THEN 1 ELSE 0))
  /\ [](InRequest /\ pc # "blocked" => Transcript[Len(Transcript)].content = state.query)
  /\ [][ /\ (~InRequest /\ InRequest') =>
              /\ Len(Transcript') = Len(Transcript) + 1
              /\ SubSeq(Transcript', 1, Len(Transcript)) = Transcript
              /\ \E k \in 1..Len(SampleQueries) :
                   Transcript'[Len(Transcript')] =
                     [role |-> "user", content |-> SampleQueries[k]]
         /\ (InRequest /\ InRequest') => Transcript' = Transcript
         /\ (InRequest /\ ~InRequest') =>
              /\ returned' # None
              /\ Transcript' =
                   Transcript \o << [role |-> "assistant", content |-> returned'] >>
              /\ pc = "blocked" => returned'[1] = WarningSign
              /\ pc = "raised" => returned'[1] = CrossMark
              /\ pc = "END" => returned' = state.final_response
         /\ (~InRequest /\ ~InRequest') =>
              Transcript' \in {Transcript, <<>>} ]_vars

\* two requests are complete and graph.invoke raised in the second: the
\* transcript holds the two prompts, each followed by its answer, the last
\* one the error text
C23_Witness ==
  /\ ~InRequest
  /\ Len(Transcript) = 4
  /\ exc # NoException
  /\ Transcript[4] = [role |-> "assistant", content |-> returned]
  /\ returned[1] = CrossMark

====
